---- MODULE Spec2Model ----
(***************************************************************************)
(* A model of tidal_variance: the extrema detector, the threshold crossing *)
(* counter and the rotating CSV export.                                    *)
(*                                                                         *)
(* A table (pandas DataFrame) is a sequence of rows, a row is a record.    *)
(* An observation row is [t, v, type]: t an instant, v the tide height in  *)
(* tenths (so that TIDEPOOL_TIDE = 0.1 is the integer 1), type "L" or "H". *)
(* An instant is an integer counting hours, one day per month: enough for  *)
(* the three components the code reads, .dt.year, .dt.month and .dt.hour.  *)
(***************************************************************************)
EXTENDS Integers, Sequences, FiniteSets, TLC

VARIABLES
    posix,      \* TRUE: Path.rename replaces an existing target (Unix);
                \* FALSE: it raises FileExistsError (Windows)
    clock,      \* the wall clock, in ticks of 1/TicksPerSecond second
    files,      \* the directory: a function from the existing paths to their tables
    written,    \* history: every table df.to_csv has written to a target path
    nexports,   \* history: how many export_to_csv calls were made since the directory was empty
    last,       \* history: what the last export_to_csv call saw and did
    df,         \* the input table of the operation under analysis
    op,         \* which operation has returned: "none", "low", "high", "count", "raised"
    low_tides,  \* the detector's candidate sequence: the rows of one kind, sorted by t
    mask,       \* the detector's boolean mask over the candidates: TRUE where kept
    result,     \* the table the operation returned
    kept,       \* the aggregation's filtered working table (df_filtered, df_below_daytime)
    prev,       \* history: the candidates and the result of an earlier detector call
    heap,       \* the DataFrame objects alive during a call: object name -> table
    run         \* the command-line run: main, load_tidal_data and run_analysis

vars == <<posix, clock, files, written, nexports, last, df, op, low_tides, mask, result,
          kept, prev, heap, run>>

fsVars == <<files, written, nexports, last>>
coreVars == <<df, op, low_tides, mask, result, kept>>
auxVars == <<prev, heap, run>>

----------------------------------------------------------------------------
(* Bounds of the model *)

MaxClock == 5
TicksPerSecond == 2
MaxTables == 3
MaxExports == 4
MaxLen == 4
MaxRows == 3

----------------------------------------------------------------------------
(* config.py *)

DAY_START_HOUR == 10
DAY_END_HOUR == 16
\* 0.1, in tenths
TIDEPOOL_TIDE == 1

----------------------------------------------------------------------------
(* Instants: pandas Timestamp, reduced to year, month and hour *)

DT(y, m, h) == (y * 12 + (m - 1)) * 24 + h
Year(t) == t \div (12 * 24)
Month(t) == ((t \div 24) % 12) + 1
Hour(t) == t % 24

Row(t, v, k) == [t |-> t, v |-> v, type |-> k]

----------------------------------------------------------------------------
(* io.py: export_to_csv *)

\* A path of the output directory: <stem><suffix>, or the rotated name
\* <stem>.bak_<stamp><suffix>. All paths share the parent directory.
PlainPath(stem) == [stem |-> stem, rotated |-> FALSE, stamp |-> 0, suffix |-> ".csv"]

\* output_path.with_name(f"{output_path.stem}.bak_{timestamp}{output_path.suffix}")
RotatedPath(p, timestamp) ==
    [stem |-> p.stem, rotated |-> TRUE, stamp |-> timestamp, suffix |-> p.suffix]

\* datetime.now().strftime("%Y%m%d_%H%M%S"): the clock truncated to whole seconds
Strftime(now) == now \div TicksPerSecond

\* output_path.exists()
Exists(fs, p) == p \in DOMAIN fs

\* The directory after removing path p
Unlink(fs, p) == [q \in (DOMAIN fs) \ {p} |-> fs[q]]

\* The directory after writing table tb at path p (df.to_csv: create or truncate)
Store(fs, p, tb) == [q \in (DOMAIN fs) \cup {p} |-> IF q = p THEN tb ELSE fs[q]]

\* Path.rename(target) raises FileExistsError: Windows, and the target exists
RenameRaises(fs, dst) == ~posix /\ Exists(fs, dst)

\* Path.rename(target), when it does not raise: the source's table is now at
\* the target, replacing silently whatever was there
Rename(fs, src, dst) == Store(Unlink(fs, src), dst, fs[src])

\* export_to_csv raises (the rename of the existing file raised)
ExportRaises(p) == Exists(files, p) /\ RenameRaises(files, RotatedPath(p, Strftime(clock)))

\* export_to_csv without its df.to_csv: an existing file is rotated, none is written
ExportToCsv_RotateOnly(tb, p) ==
    LET rotated_path == RotatedPath(p, Strftime(clock))
        existed == Exists(files, p)
        raised == ExportRaises(p)
    IN  /\ files' = IF existed /\ ~raised THEN Rename(files, p, rotated_path) ELSE files
        /\ written' = written
        /\ nexports' = nexports + 1
        /\ last' = [path |-> p, new |-> tb, existed |-> existed, raised |-> raised,
                    now |-> clock,
                    old |-> IF existed THEN files[p] ELSE <<>>,
                    rotated_path |-> rotated_path,
                    hadBackup |-> Exists(files, rotated_path)]

\* export_to_csv(df, filename): the whole call, as a step of the directory
ExportToCsv(tb, p) ==
    LET rotated_path == RotatedPath(p, Strftime(clock))
        existed == Exists(files, p)
        raised == ExportRaises(p)
        rotatedDir == IF existed /\ ~raised THEN Rename(files, p, rotated_path) ELSE files
    IN  /\ files' = IF raised THEN files ELSE Store(rotatedDir, p, tb)
        /\ written' = IF raised THEN written ELSE written \cup {tb}
        /\ nexports' = nexports + 1
        /\ last' = [path |-> p, new |-> tb, existed |-> existed, raised |-> raised,
                    now |-> clock,
                    old |-> IF existed THEN files[p] ELSE <<>>,
                    rotated_path |-> rotated_path,
                    hadBackup |-> Exists(files, rotated_path)]

NoCall == [path |-> PlainPath("none"), new |-> <<>>, existed |-> FALSE, raised |-> FALSE,
           now |-> 0,
           old |-> <<>>, rotated_path |-> PlainPath("none"), hadBackup |-> FALSE]

----------------------------------------------------------------------------
(* The export machine: a caller exporting tables to one path while time passes *)

\* tests/test_monthly_tidal_variance.py: one-row tables {t, v} written to one path
TargetPath == PlainPath("raw_tide_data_2019_2024")
ExportTables == {<<Row(DT(2024, 1, 12), i, "L")>> : i \in 1..MaxTables}

InitCore ==
    /\ df = <<>>
    /\ op = "none"
    /\ low_tides = <<>>
    /\ mask = <<>>
    /\ result = <<>>
    /\ kept = <<>>

NoEarlierCall == [called |-> FALSE, op |-> "none", df |-> <<>>, input |-> <<>>,
                  low_tides |-> <<>>, result |-> <<>>]
NoRun == [pc |-> "idle", round |-> 1, source |-> "none", outcome |-> "none",
          none |-> FALSE, columns_ok |-> TRUE, start_year |-> 0, end_year |-> 0,
          analysed |-> FALSE, reports |-> {}, failed |-> "none",
          clean |-> TRUE, first |-> "none", snapshot |-> <<>>,
          entry |-> <<>>, log |-> <<>>]

InitAux ==
    /\ prev = NoEarlierCall
    /\ heap = <<>>
    /\ run = NoRun

InitFs ==
    /\ files = <<>>
    /\ written = {}
    /\ nexports = 0
    /\ last = NoCall

InitExport ==
    /\ posix \in BOOLEAN
    /\ clock = 0
    /\ InitFs
    /\ InitCore
    /\ InitAux

\* Time passes
Tick ==
    /\ clock < MaxClock
    /\ clock' = clock + 1
    /\ UNCHANGED <<posix, fsVars, coreVars, auxVars>>

\* A caller exports a table to the target path
Export ==
    /\ nexports < MaxExports
    /\ \E tb \in ExportTables : ExportToCsv(tb, TargetPath)
    /\ UNCHANGED <<posix, clock, coreVars, auxVars>>

NextExport == Tick \/ Export

SpecExport == InitExport /\ [][NextExport]_vars

----------------------------------------------------------------------------
(* Claims on export_to_csv *)

\* The rotated backups of path p that exist in the directory: the files
\* matching '<stem>.bak_*<suffix>'
Backups(fs, p) == {q \in DOMAIN fs : q.rotated /\ q.stem = p.stem /\ q.suffix = p.suffix}

\* C3: after any sequence of exports to one path, with any timing against the
\* clock, every table written to the path so far is still the content of some
\* file of the directory (the target or a rotated backup).
C3_NoWrittenTableIsLost ==
    \A tb \in written : \E q \in DOMAIN files : files[q] = tb

\* C4: starting from a directory without the target, after k export calls to
\* the path there are exactly k - 1 rotated backups (none after the first).
C4_OneBackupPerCollision ==
    nexports >= 1 => Cardinality(Backups(files, TargetPath)) = nexports - 1

\* C5: an export that finds a file at the target renames it to the rotated
\* name carrying the call's timestamp and then writes the new table: afterwards
\* the target holds the new table and the rotated path the old content.
C5_RenameThenWrite ==
    last.existed =>
        /\ last.rotated_path = RotatedPath(last.path, Strftime(last.now))
        /\ Exists(files, last.path) /\ files[last.path] = last.new
        /\ Exists(files, last.rotated_path) /\ files[last.rotated_path] = last.old

----------------------------------------------------------------------------
(* analysis.py: identify_low_tides; monthly_tidal_variance.py: identify_high_tides *)

\* df[df["type"] == k]
TypeIs_AnyKind(tb, k) == tb
TypeIs(tb, k) == SelectSeq(tb, LAMBDA r : r.type = k)

\* df[df["type"] != k]
TypeIsNot(tb, k) == SelectSeq(tb, LAMBDA r : r.type # k)

\* The sequence s without its i-th element
RemoveAt(s, i) == SubSeq(s, 1, i - 1) \o SubSeq(s, i + 1, Len(s))

\* sort_values("t").reset_index(drop=True): the default sort (quicksort) is not
\* stable, so rows with equal t come out in any order. The set of tables the
\* sort can produce.
\* reset_index(drop=True) without the sort: the rows stay in the order of the input
SortValues_Unsorted(tb) == {tb}

RECURSIVE SortValues(_)
SortValues(tb) ==
    IF tb = <<>> THEN {<<>>}
    ELSE UNION { { <<tb[i]>> \o rest : rest \in SortValues(RemoveAt(tb, i)) } :
                 i \in {j \in 1..Len(tb) : \A k \in 1..Len(tb) : tb[j].t <= tb[k].t} }

\* A column value is <<x>>, or <<>> for NaN (what shift() fills the vacated slot with)
\* padded["v"]
ColumnV(tb) == [i \in 1..Len(tb) |-> <<tb[i].v>>]

\* Series.shift(1): each value moves one position down, NaN enters at the top
ShiftDown(col) == [i \in 1..Len(col) |-> IF i = 1 THEN <<>> ELSE col[i - 1]]

\* Series.shift(-1): each value moves one position up, NaN enters at the bottom
ShiftUp(col) == [i \in 1..Len(col) |-> IF i = Len(col) THEN <<>> ELSE col[i + 1]]

\* SeriesLt with <= for <
SeriesLt_NotStrict(a, b) == a # <<>> /\ b # <<>> /\ a[1] <= b[1]

\* a < b on column values: False where either is NaN
SeriesLt(a, b) == a # <<>> /\ b # <<>> /\ a[1] < b[1]

\* Padded with the first and the last row repeated (iloc[[0]] and iloc[[-1]])
Padded_EdgeRepeated(c) == <<c[1]>> \o c \o <<c[Len(c)]>>

\* pd.concat([low_tides.iloc[[1]], low_tides, low_tides.iloc[[-2]]], ignore_index=True)
\* (iloc counts from 0: iloc[[1]] is the second row, iloc[[-2]] the one before the last)
Padded(c) == <<c[2]>> \o c \o <<c[Len(c) - 1]>>

\* (padded["v"] < padded["v"].shift(1)) & (padded["v"] < padded["v"].shift(-1))
InteriorMask(padded) ==
    LET col == ColumnV(padded)
    IN  [i \in 1..Len(padded) |->
            SeriesLt(col[i], ShiftDown(col)[i]) /\ SeriesLt(col[i], ShiftUp(col)[i])]

\* TrimMask with the slice iloc[:-2]
TrimMask_Shifted(m) == SubSeq(m, 1, Len(m) - 2)

\* interior_mask.iloc[1:-1].reset_index(drop=True)
TrimMask(m) == SubSeq(m, 2, Len(m) - 1)

\* low_tides[mask].reset_index(drop=True): the rows where the mask is True
RECURSIVE BoolIndex(_, _)
BoolIndex(tb, m) ==
    IF tb = <<>> THEN <<>>
    ELSE (IF Head(m) THEN <<Head(tb)>> ELSE <<>>) \o BoolIndex(Tail(tb), Tail(m))

\* The mask identify_low_tides computes over the sorted candidates; for at most
\* one candidate no mask is computed and every row is returned
LowMask(c) ==
    IF Len(c) <= 1 THEN [i \in 1..Len(c) |-> TRUE]
    ELSE TrimMask(InteriorMask(Padded(c)))

\* LowerLows returning an empty table when there is nothing to compare
LowerLows_EmptyWhenShort(c) ==
    IF Len(c) <= 1 THEN <<>>
    ELSE BoolIndex(c, LowMask(c))

\* identify_low_tides(df), after the sort produced the candidates c
LowerLows(c) ==
    IF Len(c) <= 1 THEN c
    ELSE BoolIndex(c, LowMask(c))

\* HighTest with >= for >
HighTest_NotStrict(c, i) == c[i].v >= c[i - 1].v /\ c[i].v >= c[i + 1].v

\* monthly_tidal_variance.py identify_high_tides: the loop body's test at index i
\* (df.loc[i, "v"] > df.loc[i - 1, "v"] and df.loc[i, "v"] > df.loc[i + 1, "v"])
HighTest(c, i) == c[i].v > c[i - 1].v /\ c[i].v > c[i + 1].v

\* for i in range(1, len(df) - 1): the indices visited, counted from 1
HighRange(c) == 2..(Len(c) - 1)

\* The mask of the rows the loop appends to high_tides
HighMask(c) == [i \in 1..Len(c) |-> i \in HighRange(c) /\ HighTest(c, i)]

\* identify_high_tides(df), after the sort produced the candidates c
HigherHighs(c) == BoolIndex(c, HighMask(c))

----------------------------------------------------------------------------
(* The detector machine: one input table, on which the detectors are called *)

\* Input rows: two instants (so that equal timestamps occur), three heights
DetectTimes == {DT(2024, 1, 4), DT(2024, 1, 16)}
DetectValues == {0, 1, 2}
DetectRows == {Row(t, v, k) : t \in DetectTimes, v \in DetectValues, k \in {"L", "H"}}

\* All tables of at most n rows drawn from the set rows
TablesUpTo(rows, n) == UNION {[1..k -> rows] : k \in 0..n}

InitDetect ==
    /\ posix = TRUE
    /\ clock = 0
    /\ InitFs
    /\ df \in TablesUpTo(DetectRows, MaxLen)
    /\ op = "none"
    /\ low_tides = <<>>
    /\ mask = <<>>
    /\ result = <<>>
    /\ kept = <<>>
    /\ InitAux

\* identify_low_tides(df)
IdentifyLowTides ==
    /\ op = "none"
    /\ \E c \in SortValues(TypeIs(df, "L")) :
        /\ low_tides' = c
        /\ mask' = LowMask(c)
        /\ result' = LowerLows(c)
    /\ op' = "low"
    /\ UNCHANGED <<posix, clock, fsVars, df, kept, auxVars>>

\* identify_high_tides(df), of the script
IdentifyHighTides ==
    /\ op = "none"
    /\ \E c \in SortValues(TypeIsNot(df, "L")) :
        /\ low_tides' = c
        /\ mask' = HighMask(c)
        /\ result' = HigherHighs(c)
    /\ op' = "high"
    /\ UNCHANGED <<posix, clock, fsVars, df, kept, auxVars>>

NextDetect == IdentifyLowTides \/ IdentifyHighTides

SpecDetect == InitDetect /\ [][NextDetect]_vars

----------------------------------------------------------------------------
(* Claims on the extrema detector *)

\* The neighbours of candidate i in the padded sequence [c[1], c[0..n-1], c[n-2]]
\* (the claim counts from 0, the model from 1)
LeftNeighbour(c, i) == IF i = 1 THEN c[2] ELSE c[i - 1]
RightNeighbour(c, i) == IF i = Len(c) THEN c[Len(c) - 1] ELSE c[i + 1]

StrictLocalMin(c, i) == c[i].v < LeftNeighbour(c, i).v /\ c[i].v < RightNeighbour(c, i).v
StrictLocalMax(c, i) == c[i].v > LeftNeighbour(c, i).v /\ c[i].v > RightNeighbour(c, i).v

\* The table tb is exactly the rows c[i], i in idx, in ascending order of i
IsRowsAt(tb, c, idx) ==
    /\ Len(tb) = Cardinality(idx)
    /\ \A i \in idx : tb[Cardinality({j \in idx : j <= i})] = c[i]

\* How many times row r occurs in table tb
Occurrences(tb, r) == Cardinality({i \in 1..Len(tb) : tb[i] = r})

\* c is the rows of kind k of table tb, sorted by timestamp
IsSortedKind(c, tb, k) ==
    /\ \A i \in 1..Len(c) : c[i].type = k
    /\ \A i \in 1..(Len(c) - 1) : c[i].t <= c[i + 1].t
    /\ \A r \in DetectRows : Occurrences(c, r) = IF r.type = k THEN Occurrences(tb, r) ELSE 0

\* C6: for n >= 2 sorted Low candidates, identify_low_tides returns exactly the
\* candidates strictly below both neighbours in the padded sequence: each
\* returned point is one, and none of them is omitted.
C6_ExactlyStrictLocalMinima ==
    (op = "low" /\ Len(low_tides) >= 2) =>
        /\ IsSortedKind(low_tides, df, "L")
        /\ \A i \in 1..Len(low_tides) : mask[i] <=> StrictLocalMin(low_tides, i)
        /\ IsRowsAt(result, low_tides, {i \in 1..Len(low_tides) : StrictLocalMin(low_tides, i)})

\* C6 witness: four candidates, of which an interior one and an endpoint are kept
\* and another interior one is dropped
C6_Witness ==
    /\ op = "low" /\ Len(low_tides) = 4
    /\ mask[1] /\ ~mask[2] /\ mask[3] /\ ~mask[4]
    /\ Len(result) = 2

C9_TiesAreNeverExtrema ==
    (op = "low" /\ Len(low_tides) >= 2) =>
        /\ \A i \in 1..Len(low_tides) :
              mask[i] => /\ low_tides[i].v # LeftNeighbour(low_tides, i).v
                         /\ low_tides[i].v # RightNeighbour(low_tides, i).v
        /\ \A i \in 1..(Len(low_tides) - 1) :
              low_tides[i].v = low_tides[i + 1].v => ~mask[i] /\ ~mask[i + 1]
        /\ \A j \in 1..Len(result) : \E i \in 1..Len(low_tides) :
              /\ result[j] = low_tides[i]
              /\ StrictLocalMin(low_tides, i)

\* C9 witness: a plateau of two lowest candidates between higher shoulders, of
\* which nothing is returned
C9_Witness ==
    /\ op = "low" /\ Len(low_tides) = 4
    /\ low_tides[2].v = low_tides[3].v
    /\ low_tides[2].v < low_tides[1].v /\ low_tides[3].v < low_tides[4].v
    /\ result = <<>>

----------------------------------------------------------------------------
(* analysis.py: calculate_monthly_avg_count_below_tidepool_tide_daytime *)

\* A float that is a quotient of integers, kept in lowest terms
RECURSIVE Gcd(_, _)
Gcd(a, b) == IF b = 0 THEN a ELSE Gcd(b, a % b)
Ratio(a, b) == [num |-> a \div Gcd(a, b), den |-> b \div Gcd(a, b)]
Zero == [num |-> 0, den |-> 1]

\* datetime(1900, month, 1).strftime("%B")
MonthName(month) ==
    <<"January", "February", "March", "April", "May", "June", "July", "August",
      "September", "October", "November", "December">>[month]

\* df_local[df_local["v"] <= TIDEPOOL_TIDE]: a height at the threshold passes
BelowTidepool_Inclusive(tb) == SelectSeq(tb, LAMBDA r : r.v <= TIDEPOOL_TIDE)

\* df_local[df_local["v"] < TIDEPOOL_TIDE]
BelowTidepool(tb) == SelectSeq(tb, LAMBDA r : r.v < TIDEPOOL_TIDE)

\* df_below[(hour >= DAY_START_HOUR) & (hour <= DAY_END_HOUR)]: the window closed at its end
Daytime_EndInclusive(tb) ==
    SelectSeq(tb, LAMBDA r : Hour(r.t) >= DAY_START_HOUR /\ Hour(r.t) <= DAY_END_HOUR)

\* df_below[(df_below["hour"] >= DAY_START_HOUR) & (df_below["hour"] < DAY_END_HOUR)]
Daytime(tb) ==
    SelectSeq(tb, LAMBDA r : Hour(r.t) >= DAY_START_HOUR /\ Hour(r.t) < DAY_END_HOUR)

\* The elements of a finite set of integers, ascending (groupby sorts its keys)
RECURSIVE Ascending(_)
Ascending(S) ==
    IF S = {} THEN <<>>
    ELSE LET least == CHOOSE x \in S : \A y \in S : x <= y
         IN  <<least>> \o Ascending(S \ {least})

\* groupby(["year", "month"]).size().reset_index(name="count_below_tidepool_tide_daytime"):
\* one row per (year, month) present, ordered by year and then month
GroupSizeByYearMonth(tb) ==
    LET key(r) == Year(r.t) * 12 + (Month(r.t) - 1)
        keys == Ascending({key(tb[i]) : i \in 1..Len(tb)})
    IN  [g \in 1..Len(keys) |->
            [year |-> keys[g] \div 12,
             month |-> (keys[g] % 12) + 1,
             count |-> Cardinality({i \in 1..Len(tb) : key(tb[i]) = keys[g]})]]

\* The sum of the count column
RECURSIVE SumCount(_)
SumCount(tb) == IF tb = <<>> THEN 0 ELSE Head(tb).count + SumCount(Tail(tb))

\* The per-month sum of the counts divided by the number of years of the whole table
MeanCountByMonth_AllYears(counts) ==
    LET months == Ascending({counts[i].month : i \in 1..Len(counts)})
        years == {counts[i].year : i \in 1..Len(counts)}
    IN  [g \in 1..Len(months) |->
            LET grp == SelectSeq(counts, LAMBDA r : r.month = months[g])
            IN  [month |-> months[g], count |-> Ratio(SumCount(grp), Cardinality(years))]]

\* groupby("month")["count_below_tidepool_tide_daytime"].mean().reset_index():
\* one row per month present, ordered by month
MeanCountByMonth(counts) ==
    LET months == Ascending({counts[i].month : i \in 1..Len(counts)})
    IN  [g \in 1..Len(months) |->
            LET grp == SelectSeq(counts, LAMBDA r : r.month = months[g])
            IN  [month |-> months[g], count |-> Ratio(SumCount(grp), Len(grp))]]

\* pd.DataFrame({"month": range(1, 13)})
AllMonths == [m \in 1..12 |-> [month |-> m]]

\* The rows of a merge for one left row: a row per matching right row
MatchRows(l, right) ==
    LET hits == SelectSeq(right, LAMBDA r : r.month = l.month)
    IN  [i \in 1..Len(hits) |-> [month |-> l.month, count |-> <<hits[i].count>>]]

\* left.merge(right, on="month", how="inner"): left rows without a match are dropped
RECURSIVE Merge_Inner(_, _)
Merge_Inner(left, right) ==
    IF left = <<>> THEN <<>>
    ELSE MatchRows(Head(left), right) \o Merge_Inner(Tail(left), right)

\* left.merge(right, on="month", how="left"): in the order of the left rows, a
\* row per matching right row, and one row with NaN (<<>>) when none matches
RECURSIVE MergeLeft(_, _)
MergeLeft(left, right) ==
    IF left = <<>> THEN <<>>
    ELSE (IF MatchRows(Head(left), right) = <<>>
          THEN <<[month |-> Head(left).month, count |-> <<>>]>>
          ELSE MatchRows(Head(left), right)) \o MergeLeft(Tail(left), right)

\* .fillna(0)
FillNa0(tb) ==
    [i \in 1..Len(tb) |->
        [month |-> tb[i].month,
         count |-> IF tb[i].count = <<>> THEN Zero ELSE tb[i].count[1]]]

\* The month_name column and the rename of the count column
NameAndRename(tb) ==
    [i \in 1..Len(tb) |->
        [month |-> tb[i].month,
         average_count_below_tidepool_tide_daytime |-> tb[i].count,
         month_name |-> MonthName(tb[i].month)]]

\* The table calculate_monthly_avg_count_below_tidepool_tide_daytime computes from df
AverageMonthlyCountsDaytime(tb) ==
    NameAndRename(FillNa0(MergeLeft(AllMonths,
        MeanCountByMonth(GroupSizeByYearMonth(Daytime(BelowTidepool(tb)))))))

----------------------------------------------------------------------------
(* The counter machine: one input table, on which the counter is called with *)
(* an output path in a clean directory                                       *)

\* Input rows: two years, the first and the last month, an hour before the
\* window, its first hour and its end hour, a height below and one at the threshold
CountTimes == {DT(y, m, h) : y \in {2023, 2024}, m \in {1, 12},
                             h \in {DAY_START_HOUR - 1, DAY_START_HOUR, DAY_END_HOUR}}
CountValues == {TIDEPOOL_TIDE - 1, TIDEPOOL_TIDE}
CountRows == {Row(t, v, "L") : t \in CountTimes, v \in CountValues}

\* tests/test_monthly_tidal_variance.py: output_filename = <tmpdir>/counts.csv
CountsPath == PlainPath("counts")

InitCount ==
    /\ posix = TRUE
    /\ clock = 0
    /\ InitFs
    /\ df \in TablesUpTo(CountRows, MaxRows)
    /\ op = "none"
    /\ low_tides = <<>>
    /\ mask = <<>>
    /\ result = <<>>
    /\ kept = <<>>
    /\ InitAux

\* calculate_monthly_avg_count_below_tidepool_tide_daytime(df, output_filename)
CountBelowTidepoolDaytime ==
    /\ op = "none"
    /\ LET average_monthly_counts_daytime == AverageMonthlyCountsDaytime(df)
       IN  /\ ExportToCsv(average_monthly_counts_daytime, CountsPath)
           /\ IF ExportRaises(CountsPath)
              THEN op' = "raised" /\ result' = <<>>
              ELSE op' = "count" /\ result' = average_monthly_counts_daytime
    /\ kept' = Daytime(BelowTidepool(df))
    /\ UNCHANGED <<posix, clock, df, low_tides, mask, auxVars>>

NextCount == CountBelowTidepoolDaytime

SpecCount == InitCount /\ [][NextCount]_vars

----------------------------------------------------------------------------
(* Claims on the threshold crossing counter *)

\* Row j of the input counts: below the threshold, in [DAY_START_HOUR, DAY_END_HOUR)
Qualifies(r) ==
    /\ r.v < TIDEPOOL_TIDE
    /\ DAY_START_HOUR <= Hour(r.t) /\ Hour(r.t) < DAY_END_HOUR

\* C1: for every input, also one without a qualifying row, the counter returns
\* exactly 12 rows whose month column is 1, 2, ..., 12 in this order.
C1_TwelveRowsInMonthOrder ==
    op = "count" =>
        /\ Len(result) = 12
        /\ \A i \in 1..Len(result) : result[i].month = i

\* C1 witness: the counter returned for an input of several rows of which none qualifies
C1_Witness ==
    /\ op = "count" /\ Len(df) = MaxRows
    /\ \A j \in 1..Len(df) : ~Qualifies(df[j])
    /\ Len(result) = 12

\* C2: every month is present; its average_count is 0 exactly when no input row
\* of that month, in any year, qualifies; and no average_count is negative.
C2_ZeroIffNoQualifyingRow ==
    op = "count" =>
        \A m \in 1..12 :
            /\ \E i \in 1..Len(result) : result[i].month = m
            /\ \A i \in 1..Len(result) :
                  result[i].month = m =>
                      LET avg == result[i].average_count_below_tidepool_tide_daytime
                      IN  /\ avg.den > 0 /\ avg.num >= 0
                          /\ avg.num = 0 <=>
                                ~\E j \in 1..Len(df) : Month(df[j].t) = m /\ Qualifies(df[j])

\* C2 witness: December has rows in the input, none of which qualifies, and is
\* present with 0, while January has a non-zero average
C2_Witness ==
    /\ op = "count"
    /\ \E j \in 1..Len(df) : Month(df[j].t) = 12
    /\ result[12].average_count_below_tidepool_tide_daytime = Zero
    /\ result[1].average_count_below_tidepool_tide_daytime.num > 0

\* C12: the counter counts a row iff its value is strictly below the threshold
\* and DAY_START_HOUR <= hour < DAY_END_HOUR: the rows it keeps for counting are
\* exactly the qualifying rows of the input; a row at the threshold or at hour
\* DAY_END_HOUR is never among them, and a row below the threshold at hour
\* DAY_START_HOUR always is.
C12_CountedIffBelowAndInWindow ==
    op \in {"count", "raised"} =>
        /\ IsRowsAt(kept, df, {j \in 1..Len(df) : Qualifies(df[j])})
        /\ \A i \in 1..Len(kept) :
              kept[i].v # TIDEPOOL_TIDE /\ Hour(kept[i].t) # DAY_END_HOUR
        /\ \A j \in 1..Len(df) :
              (Hour(df[j].t) = DAY_START_HOUR /\ df[j].v < TIDEPOOL_TIDE) =>
                  \E i \in 1..Len(kept) : kept[i] = df[j]
        /\ op = "count" =>
              \A m \in 1..12 :
                  result[m].average_count_below_tidepool_tide_daytime.num > 0
                      <=> \E i \in 1..Len(kept) : Month(kept[i].t) = m

\* C12 witness: of three rows of one month, the one at the threshold and the
\* one at hour DAY_END_HOUR are left out and the one at hour DAY_START_HOUR is counted
C12_Witness ==
    /\ op = "count" /\ Len(df) = 3 /\ Len(kept) = 1
    /\ \E j \in 1..3 : df[j].v = TIDEPOOL_TIDE /\ Hour(df[j].t) = DAY_START_HOUR
    /\ \E j \in 1..3 : df[j].v < TIDEPOOL_TIDE /\ Hour(df[j].t) = DAY_END_HOUR
    /\ Hour(kept[1].t) = DAY_START_HOUR
    /\ \A j \in 1..3 : Month(df[j].t) = 1
    /\ result[1].average_count_below_tidepool_tide_daytime = Ratio(1, 1)

\* The qualifying rows of month m, and the years they fall in
QualifyingIn(m) == {j \in 1..Len(df) : Month(df[j].t) = m /\ Qualifies(df[j])}
YearsCounted(m) == {Year(df[j].t) : j \in QualifyingIn(m)}

\* C13: for each month with a qualifying row, average_count is the number of
\* qualifying rows of that month over all years divided by the number of distinct
\* years with a qualifying row in that month; three qualifying rows in January of
\* one year and none elsewhere give 3 for January and 0 for the other months.
C13_MeanOverYearsWithACount ==
    op = "count" =>
        /\ \A m \in 1..12 :
              QualifyingIn(m) # {} =>
                  LET avg == result[m].average_count_below_tidepool_tide_daytime
                  IN  /\ avg.den > 0
                      /\ avg.num * Cardinality(YearsCounted(m))
                            = avg.den * Cardinality(QualifyingIn(m))
        /\ (/\ Cardinality(QualifyingIn(1)) = 3
            /\ Cardinality(YearsCounted(1)) = 1
            /\ \A m \in 2..12 : QualifyingIn(m) = {})
           => \A m \in 1..12 :
                  result[m].average_count_below_tidepool_tide_daytime
                      = IF m = 1 THEN [num |-> 3, den |-> 1] ELSE [num |-> 0, den |-> 1]

\* C13 witness: January has two qualifying rows in one year and one in the
\* other, and the counter returns 3/2 for it
C13_Witness ==
    /\ op = "count"
    /\ Cardinality(QualifyingIn(1)) = 3
    /\ Cardinality(YearsCounted(1)) = 2
    /\ result[1].average_count_below_tidepool_tide_daytime = [num |-> 3, den |-> 2]

----------------------------------------------------------------------------
(* analysis.py: analyze_monthly_average, calculate_monthly_avg_lowest_daytime_tide, *)
(* calculate_monthly_avg_lowest_day_tide_by_year                                   *)

\* The significant bits of a float (53 for float64, scaled down with the heights)
MantissaBits == 3

\* The spacing of the floats around x >= 0
RECURSIVE Quantum(_)
Quantum(x) == IF x < 2 ^ MantissaBits THEN 1 ELSE 2 * Quantum(x \div 2)

\* x >= 0 rounded to the nearest float, a tie to the one with the even mantissa
Fl(x) ==
    LET q == Quantum(x)
        lo == (x \div q) * q
    IN  IF 2 * (x - lo) < q THEN lo
        ELSE IF 2 * (x - lo) > q THEN lo + q
        ELSE IF (lo \div q) % 2 = 0 THEN lo ELSE lo + q

\* The sum of the v column: the float64 accumulation of ["v"].mean(), row
\* after row in the order of the table, each partial sum rounded
RECURSIVE SumV(_)
SumV(tb) ==
    IF tb = <<>> THEN 0
    ELSE Fl(SumV(SubSeq(tb, 1, Len(tb) - 1)) + tb[Len(tb)].v)

\* The months of the rows in the order in which they first appear
RECURSIVE FirstSeenMonths(_)
FirstSeenMonths(tb) ==
    IF tb = <<>> THEN <<>>
    ELSE LET seen == FirstSeenMonths(SubSeq(tb, 1, Len(tb) - 1))
             m == Month(tb[Len(tb)].t)
         IN  IF \E i \in 1..Len(seen) : seen[i] = m THEN seen ELSE Append(seen, m)

\* groupby("month", sort=False)["v"].mean().reset_index(): the groups in the
\* order of their first row
MeanVByMonth_FirstSeenOrder(tb) ==
    LET months == FirstSeenMonths(tb)
    IN  [g \in 1..Len(months) |->
            LET grp == SelectSeq(tb, LAMBDA r : Month(r.t) = months[g])
            IN  [month |-> months[g], v |-> Ratio(SumV(grp), Len(grp))]]

\* groupby(["year", "month"])["v"].mean().reset_index() with the year dropped:
\* the years of a month are not pooled
MeanVByMonth_YearsApart(tb) ==
    LET key(r) == Year(r.t) * 12 + (Month(r.t) - 1)
        keys == Ascending({key(tb[i]) : i \in 1..Len(tb)})
    IN  [g \in 1..Len(keys) |->
            LET grp == SelectSeq(tb, LAMBDA r : key(r) = keys[g])
            IN  [month |-> (keys[g] % 12) + 1, v |-> Ratio(SumV(grp), Len(grp))]]

\* groupby("month")["v"].mean().reset_index(): one row per month present,
\* ordered by month
MeanVByMonth(tb) ==
    LET months == Ascending({Month(tb[i].t) : i \in 1..Len(tb)})
    IN  [g \in 1..Len(months) |->
            LET grp == SelectSeq(tb, LAMBDA r : Month(r.t) = months[g])
            IN  [month |-> months[g], v |-> Ratio(SumV(grp), Len(grp))]]

\* monthly_avg["month_name"] = monthly_avg["month"].apply(... strftime("%B"))
MonthlyAvg(tb) ==
    LET monthly_avg == MeanVByMonth(tb)
    IN  [i \in 1..Len(monthly_avg) |->
            [month |-> monthly_avg[i].month,
             v |-> monthly_avg[i].v,
             month_name |-> MonthName(monthly_avg[i].month)]]

\* df[(hour >= DAY_START_HOUR) & (hour < DAY_END_HOUR)]: the counter's window
DaytimeInclusive_HalfOpen(tb) ==
    SelectSeq(tb, LAMBDA r : Hour(r.t) >= DAY_START_HOUR /\ Hour(r.t) < DAY_END_HOUR)

\* df[(df["t"].dt.hour >= DAY_START_HOUR) & (df["t"].dt.hour <= DAY_END_HOUR)]
DaytimeInclusive(tb) ==
    SelectSeq(tb, LAMBDA r : Hour(r.t) >= DAY_START_HOUR /\ Hour(r.t) <= DAY_END_HOUR)

\* The table calculate_monthly_avg_lowest_daytime_tide computes from df
MonthlyAvgLowest(tb) ==
    LET monthly_avg_lowest == MeanVByMonth(DaytimeInclusive(tb))
    IN  [i \in 1..Len(monthly_avg_lowest) |->
            [month |-> monthly_avg_lowest[i].month,
             average_lowest_tide |-> monthly_avg_lowest[i].v,
             month_name |-> MonthName(monthly_avg_lowest[i].month)]]

\* groupby(["year", "month"])["v"].mean().reset_index(): one row per (year,
\* month) present, ordered by year and then month
MeanVByYearMonth(tb) ==
    LET key(r) == Year(r.t) * 12 + (Month(r.t) - 1)
        keys == Ascending({key(tb[i]) : i \in 1..Len(tb)})
    IN  [g \in 1..Len(keys) |->
            LET grp == SelectSeq(tb, LAMBDA r : key(r) = keys[g])
            IN  [year |-> keys[g] \div 12,
                 month |-> (keys[g] % 12) + 1,
                 v |-> Ratio(SumV(grp), Len(grp))]]

\* The table calculate_monthly_avg_lowest_day_tide_by_year computes from df
MonthlyAvgLowestYearly(tb) ==
    LET monthly_avg_lowest_yearly == MeanVByYearMonth(DaytimeInclusive(tb))
    IN  [i \in 1..Len(monthly_avg_lowest_yearly) |->
            [year |-> monthly_avg_lowest_yearly[i].year,
             month |-> monthly_avg_lowest_yearly[i].month,
             average_lowest_tide |-> monthly_avg_lowest_yearly[i].v,
             month_name |-> MonthName(monthly_avg_lowest_yearly[i].month)]]

----------------------------------------------------------------------------
(* The aggregator machine: one input table, on which one of the three *)
(* aggregations is called                                             *)

MaxAggRows == 3

\* Input rows: January of two years and December of one, the hours around both
\* ends of the daytime window, two heights
AggTimes == {DT(2023, 1, h) : h \in (DAY_START_HOUR - 1)..DAY_START_HOUR}
            \cup {DT(2024, m, h) : m \in {1, 12},
                                   h \in {DAY_START_HOUR - 1, DAY_START_HOUR,
                                          DAY_END_HOUR, DAY_END_HOUR + 1}}
AggValues == {0, 1}
AggRows == {Row(t, v, "L") : t \in AggTimes, v \in AggValues}

\* output_filename of calculate_monthly_avg_lowest_day_tide_by_year
ByYearPath == PlainPath("monthly_avg_lowest_tide_by_year")

InitAgg ==
    /\ posix = TRUE
    /\ clock = 0
    /\ InitFs
    /\ df \in TablesUpTo(AggRows, MaxAggRows)
    /\ op = "none"
    /\ low_tides = <<>>
    /\ mask = <<>>
    /\ result = <<>>
    /\ kept = <<>>
    /\ InitAux

\* analyze_monthly_average(low_tides_df)
AnalyzeMonthlyAverage ==
    /\ op = "none"
    /\ kept' = df
    /\ result' = MonthlyAvg(df)
    /\ op' = "monthly"
    /\ UNCHANGED <<posix, clock, fsVars, df, low_tides, mask, auxVars>>

\* calculate_monthly_avg_lowest_daytime_tide(df)
MonthlyAvgLowestDaytimeTide ==
    /\ op = "none"
    /\ kept' = DaytimeInclusive(df)
    /\ result' = MonthlyAvgLowest(df)
    /\ op' = "daytime"
    /\ UNCHANGED <<posix, clock, fsVars, df, low_tides, mask, auxVars>>

\* calculate_monthly_avg_lowest_day_tide_by_year(df, output_filename)
MonthlyAvgLowestDayTideByYear ==
    /\ op = "none"
    /\ kept' = DaytimeInclusive(df)
    /\ LET monthly_avg_lowest_yearly == MonthlyAvgLowestYearly(df)
       IN  /\ ExportToCsv(monthly_avg_lowest_yearly, ByYearPath)
           /\ IF ExportRaises(ByYearPath)
              THEN op' = "raised" /\ result' = <<>>
              ELSE op' = "by_year" /\ result' = monthly_avg_lowest_yearly
    /\ UNCHANGED <<posix, clock, df, low_tides, mask, auxVars>>

NextAgg ==
    \/ AnalyzeMonthlyAverage
    \/ MonthlyAvgLowestDaytimeTide
    \/ MonthlyAvgLowestDayTideByYear

SpecAgg == InitAgg /\ [][NextAgg]_vars

----------------------------------------------------------------------------
(* Claims on the calendar aggregator *)

\* The sum of the v column over the rows of tb at the indices in I
RECURSIVE SumAt(_, _)
SumAt(tb, I) ==
    IF I = {} THEN 0
    ELSE LET i == CHOOSE j \in I : TRUE IN tb[i].v + SumAt(tb, I \ {i})

EnglishMonths ==
    [m \in 1..12 |->
        CASE m = 1 -> "January" [] m = 2 -> "February" [] m = 3 -> "March"
          [] m = 4 -> "April" [] m = 5 -> "May" [] m = 6 -> "June"
          [] m = 7 -> "July" [] m = 8 -> "August" [] m = 9 -> "September"
          [] m = 10 -> "October" [] m = 11 -> "November" [] m = 12 -> "December"]

\* avg is the arithmetic mean of the v column over the rows of tb at the indices in I
IsMeanAt(avg, tb, I) ==
    /\ avg.den > 0
    /\ avg.num * Cardinality(I) = avg.den * SumAt(tb, I)

\* C11: analyze_monthly_average returns one row for each calendar month that
\* has an input row (years pooled) and none for any other month, so at most 12
\* rows, in ascending month order; each value is the arithmetic mean of the
\* values of all input rows of that month and month_name is the English name of
\* the month number.
C11_OneRowPerMonthWithMean ==
    op = "monthly" =>
        LET months == {Month(df[j].t) : j \in 1..Len(df)}
        IN  /\ Len(result) = Cardinality(months)
            /\ Len(result) <= 12
            /\ \A i \in 1..Len(result) : result[i].month \in months
            /\ \A i \in 1..(Len(result) - 1) : result[i].month < result[i + 1].month
            /\ \A i \in 1..Len(result) :
                  /\ IsMeanAt(result[i].v, df,
                              {j \in 1..Len(df) : Month(df[j].t) = result[i].month})
                  /\ result[i].month_name = EnglishMonths[result[i].month]

\* C11 witness: January rows of two years with different heights, and a
\* December row, give two rows, January first with the pooled mean 1/2
C11_Witness ==
    /\ op = "monthly"
    /\ \E j, k \in 1..Len(df) :
          /\ Month(df[j].t) = 1 /\ Month(df[k].t) = 1
          /\ Year(df[j].t) # Year(df[k].t) /\ df[j].v # df[k].v
    /\ \E j \in 1..Len(df) : Month(df[j].t) = 12
    /\ Len(result) = 2
    /\ result[1] = [month |-> 1, v |-> [num |-> 1, den |-> 2], month_name |-> "January"]
    /\ result[2].month_name = "December"

\* Row r is at an hour of the window closed at both ends
InDayWindow(r) == DAY_START_HOUR <= Hour(r.t) /\ Hour(r.t) <= DAY_END_HOUR

\* C14: calculate_monthly_avg_lowest_day_tide_by_year keeps a row iff
\* DAY_START_HOUR <= hour <= DAY_END_HOUR and returns exactly one row per
\* (year, month) pair with a kept row, in which the value is the mean of the
\* kept rows of the pair; a pair without a kept row is absent, and no kept row
\* gives a table of no rows and no failure.
C14_ByYearInclusiveWindow ==
    (op \in {"by_year", "raised"} /\ last.path = ByYearPath) =>
        LET pairs == {<<Year(kept[j].t), Month(kept[j].t)>> : j \in 1..Len(kept)}
        IN  /\ op = "by_year"
            /\ IsRowsAt(kept, df, {j \in 1..Len(df) : InDayWindow(df[j])})
            /\ Len(result) = Cardinality(pairs)
            /\ \A i \in 1..Len(result) : <<result[i].year, result[i].month>> \in pairs
            /\ \A i, k \in 1..Len(result) :
                  (result[i].year = result[k].year /\ result[i].month = result[k].month)
                      => i = k
            /\ \A i \in 1..Len(result) :
                  IsMeanAt(result[i].average_lowest_tide, kept,
                           {j \in 1..Len(kept) : /\ Year(kept[j].t) = result[i].year
                                                 /\ Month(kept[j].t) = result[i].month})
            /\ kept = <<>> => result = <<>>

\* C14 witness: rows at hour DAY_END_HOUR and at hour DAY_START_HOUR of two
\* pairs are kept, the row an hour after the window is not, and the result has
\* a row for each of the two pairs
C14_Witness ==
    /\ op = "by_year" /\ Len(df) = 3 /\ Len(kept) = 2 /\ Len(result) = 2
    /\ \E j \in 1..3 : Hour(df[j].t) = DAY_END_HOUR + 1
    /\ \E i \in 1..2 : Hour(kept[i].t) = DAY_END_HOUR
    /\ \E i \in 1..2 : Hour(kept[i].t) = DAY_START_HOUR

\* C14 witness: no input row is in the window and the result has no row
C14_WitnessEmpty ==
    /\ op = "by_year" /\ Len(df) = MaxAggRows /\ kept = <<>> /\ result = <<>>

----------------------------------------------------------------------------
(* The report machine: one of the two exporting aggregations is called with an *)
(* output directory that may hold the report, and a backup, of an earlier run  *)

MaxReportRows == 2

ReportRows == {Row(DT(2023, 12, DAY_START_HOUR), 0, "L"),
               Row(DT(2024, 1, DAY_START_HOUR), 0, "L"),
               Row(DT(2024, 1, DAY_END_HOUR), 1, "L")}

\* What earlier runs left at a report's path
EarlierReport == <<[report |-> "earlier"]>>
EarliestReport == <<[report |-> "earliest"]>>

\* The output directories a call can meet: clean, holding each report of an
\* earlier run, and holding also a backup of each made within the current second
ReportDirs ==
    LET held == Store(Store(<<>>, ByYearPath, EarlierReport), CountsPath, EarlierReport)
    IN  { <<>>,
          held,
          Store(Store(held, RotatedPath(ByYearPath, Strftime(0)), EarliestReport),
                RotatedPath(CountsPath, Strftime(0)), EarliestReport) }

InitReport ==
    /\ posix \in BOOLEAN
    /\ clock = 0
    /\ files \in ReportDirs
    /\ written = {}
    /\ nexports = 0
    /\ last = NoCall
    /\ df \in TablesUpTo(ReportRows, MaxReportRows)
    /\ op = "none"
    /\ low_tides = <<>>
    /\ mask = <<>>
    /\ result = <<>>
    /\ kept = <<>>
    /\ InitAux

NextReport ==
    \/ MonthlyAvgLowestDayTideByYear
    \/ CountBelowTidepoolDaytime

SpecReport == InitReport /\ [][NextReport]_vars

\* C15: the year-by-month aggregator and the counter export their result to the
\* output path before returning: whenever either has returned a table, the file
\* at output_filename exists and holds exactly the rows of the returned table,
\* all 12 of them for the counter.
C15_ExportedBeforeReturn ==
    /\ op = "by_year" =>
          /\ Exists(files, ByYearPath)
          /\ files[ByYearPath] = result
          /\ last.path = ByYearPath /\ last.new = result /\ ~last.raised
    /\ op = "count" =>
          /\ Exists(files, CountsPath)
          /\ files[CountsPath] = result
          /\ Len(files[CountsPath]) = 12
          /\ last.path = CountsPath /\ last.new = result /\ ~last.raised
    /\ op = "raised" => (last.raised /\ result = <<>>)

\* C15 witness: the counter returned with an earlier report at its path, which
\* now holds the 12 returned rows while the earlier report is in the backup
C15_Witness ==
    /\ op = "count" /\ last.existed /\ df # <<>>
    /\ files[CountsPath] = result /\ Len(result) = 12
    /\ files[last.rotated_path] = EarlierReport

\* C15 witness: the year-by-month aggregator returned a table of two rows that
\* replaced an earlier report
C15_WitnessByYear ==
    /\ op = "by_year" /\ last.existed
    /\ files[ByYearPath] = result /\ Len(result) = 2

----------------------------------------------------------------------------
(* cli.py: main, load_tidal_data, run_analysis *)

\* start_year and end_year of load_tidal_data before the data is read
DEFAULT_START_YEAR == 2019
DEFAULT_END_YEAR == 2024

\* build_period_suffix with the time of the call in it
BuildPeriodSuffix_Stamped(start_year, end_year) == <<start_year, end_year, Strftime(clock)>>

\* build_period_suffix(start_year, end_year): f"{start_year}_{end_year}"
BuildPeriodSuffix(start_year, end_year) == <<start_year, end_year>>

\* append_period_to_filename(filename, period_suffix):
\* path.with_name(f"{path.stem}_{period_suffix}{path.suffix}")
AppendPeriodToFilename(path, period_suffix) ==
    [path EXCEPT !.stem = <<path.stem, period_suffix>>]

\* The period-suffixed path of the file called name, for the years of the run
PeriodPath(name) ==
    AppendPeriodToFilename(PlainPath(name), BuildPeriodSuffix(run.start_year, run.end_year))

\* args.api_raw_output, with the period suffix of the default years
RawOutput ==
    AppendPeriodToFilename(PlainPath("raw_tide_data"),
                           BuildPeriodSuffix(DEFAULT_START_YEAR, DEFAULT_END_YEAR))

\* The reports of run_analysis after the detailed low tide export, in the
\* order of the code, and the file each is exported to
ReportNames == <<"monthly", "daytime", "by_year", "count">>
\* Every report exported to the file of the monthly mean
ReportFile_OneName(name) == "monthly_low_tide_average"

ReportFile(name) ==
    CASE name = "monthly" -> "monthly_low_tide_average"
      [] name = "daytime" -> "average_lowest_daytime_tide_per_month"
      [] name = "by_year" -> "monthly_avg_lowest_tide_by_year"
      [] name = "count" -> "monthly_avg_count_below_tidepool_daytime"
DetailedFile == "detailed_low_tide_data"

\* The table a report computes from low_tides_df
ReportTable(name, low_tides_df) ==
    CASE name = "monthly" -> MonthlyAvg(low_tides_df)
      [] name = "daytime" -> MonthlyAvgLowest(low_tides_df)
      [] name = "by_year" -> MonthlyAvgLowestYearly(low_tides_df)
      [] name = "count" -> AverageMonthlyCountsDaytime(low_tides_df)

\* What follows a report that went through
AfterReport(name) ==
    CASE name = "monthly" -> "daytime"
      [] name = "daytime" -> "by_year"
      [] name = "by_year" -> "count"
      [] name = "count" -> "returned"

\* tidal_df["t"].min().year and tidal_df["t"].max().year
MinYear(tb) == CHOOSE y \in {Year(tb[i].t) : i \in 1..Len(tb)} :
                   \A i \in 1..Len(tb) : y <= Year(tb[i].t)
MaxYear(tb) == CHOOSE y \in {Year(tb[i].t) : i \in 1..Len(tb)} :
                   \A i \in 1..Len(tb) : y >= Year(tb[i].t)

\* main goes on to run_analysis although the table is empty
MainStops_NoneOnly(none, tidal_df) == none

\* main: tidal_df is None or tidal_df.empty
MainStops(none, tidal_df) == none \/ tidal_df = <<>>

\* How load_tidal_data can end for each source: the CSV file is missing, is
\* not parseable, has a header and no row, or is read; the request or the JSON
\* decoding fails inside fetch_tidal_data, the response lacks the data key, or
\* the predictions are fetched
LoadOutcomes(source) ==
    IF source = "csv" THEN {"missing", "parse_error", "no_rows", "ok"}
    ELSE {"request_failed", "bad_format", "ok"}

\* plt.savefig(output_filename) writes the plot or raises OSError
PlotOutcomes == {"ok", "OSError"}

----------------------------------------------------------------------------
(* The run machine: main, step by step, while time passes; then run_analysis *)
(* once more on the same table against a cleaned output directory            *)

MaxRunRows == 2

\* Input rows: two Low rows at one instant, a Low row of the year before at
\* the end hour of the window, and a High row
RunRows == {Row(DT(2024, 1, DAY_START_HOUR), 0, "L"),
            Row(DT(2024, 1, DAY_START_HOUR), 1, "L"),
            Row(DT(2023, 12, DAY_END_HOUR), 0, "L"),
            Row(DT(2024, 1, 12), 2, "H")}

\* What an earlier run over the year 2024 left behind: its monthly report and a
\* backup of it made within the current second
LeftBehind ==
    LET monthly == AppendPeriodToFilename(PlainPath(ReportFile("monthly")),
                                          BuildPeriodSuffix(2024, 2024))
    IN  Store(Store(<<>>, monthly, EarlierReport),
              RotatedPath(monthly, Strftime(0)), EarliestReport)

InitRun ==
    /\ posix \in BOOLEAN
    /\ clock = 0
    /\ files \in {<<>>, LeftBehind}
    /\ written = {}
    /\ nexports = 0
    /\ last = NoCall
    /\ InitCore
    /\ InitAux

\* main: args = parse_args(); tidal_df, start_year, end_year = load_tidal_data(args)
LoadTidalData ==
    /\ run.pc = "idle"
    /\ \E source \in {"csv", "api"} : \E outcome \in LoadOutcomes(source) :
       \E tb \in TablesUpTo(RunRows, MaxRunRows) : \E cols \in BOOLEAN : \E raises \in BOOLEAN :
          /\ (outcome = "ok") <=> (tb # <<>>)
          /\ ~cols => (source = "csv" /\ outcome = "ok")
          /\ raises => outcome = "no_rows"
          /\ df' = tb
          /\ IF source = "api" /\ outcome # "bad_format"
             THEN ExportToCsv(tb, RawOutput)
             ELSE UNCHANGED fsVars
          /\ run' = [run EXCEPT
                !.source = source,
                !.outcome = outcome,
                !.clean = (files = <<>>),
                !.columns_ok = cols,
                !.none = outcome \in {"missing", "parse_error", "bad_format"},
                !.start_year = IF source = "csv" /\ outcome = "ok"
                               THEN MinYear(tb) ELSE DEFAULT_START_YEAR,
                !.end_year = IF source = "csv" /\ outcome = "ok"
                             THEN MaxYear(tb) ELSE DEFAULT_END_YEAR,
                !.pc = IF raises \/ (source = "api" /\ outcome # "bad_format"
                                     /\ ExportRaises(RawOutput))
                       THEN "crashed" ELSE "loaded"]
    /\ UNCHANGED <<posix, clock, op, low_tides, mask, result, kept, prev, heap>>

\* main: the guard before run_analysis(tidal_df, start_year, end_year)
MainGuard ==
    /\ run.pc = "loaded"
    /\ run' = IF MainStops(run.none, df)
              THEN [run EXCEPT !.pc = "stopped"]
              ELSE [run EXCEPT !.pc = "detect", !.analysed = TRUE, !.entry = files]
    /\ UNCHANGED <<posix, clock, fsVars, coreVars, prev, heap>>

\* One step of run_analysis on the way: the extrema detection, the computing of
\* a table, its export, or its plot
Event(stage, name) == [stage |-> stage, name |-> name]

\* run_analysis goes on with an empty low_tides_df
ReturnsEarly_Never(low_tides_df) == FALSE

\* run_analysis: if low_tides_df.empty: print(...); return
ReturnsEarly(low_tides_df) == low_tides_df = <<>>

\* run_analysis: low_tides_df = identify_low_tides(tidal_df), and the return
\* when it is empty. The sort is a function of its input: a second run over
\* the same table orders the candidates as the first did.
RunIdentifyLowTides ==
    /\ run.pc = "detect"
    /\ IF ~run.columns_ok
       THEN /\ run' = [run EXCEPT !.pc = "caught"]
            /\ UNCHANGED <<low_tides, mask, result>>
       ELSE \E c \in SortValues(TypeIs(df, "L")) :
               /\ run.round = 2 => c = low_tides
               /\ low_tides' = c
               /\ mask' = LowMask(c)
               /\ result' = LowerLows(c)
               /\ run' = [run EXCEPT !.pc = IF ReturnsEarly(LowerLows(c)) THEN "returned"
                                            ELSE "detailed",
                                     !.log = Append(@, Event("detect", "low_tides"))]
    /\ UNCHANGED <<posix, clock, fsVars, df, op, kept, prev, heap>>

\* run_analysis: export_to_csv(low_tides_df, output_filename)
ExportDetailed ==
    /\ run.pc = "detailed"
    /\ ExportToCsv(result, PeriodPath(DetailedFile))
    /\ run' = [run EXCEPT !.pc = IF ExportRaises(PeriodPath(DetailedFile))
                                 THEN "crashed" ELSE "monthly",
                          !.failed = IF ExportRaises(PeriodPath(DetailedFile))
                                     THEN "detailed" ELSE @,
                          !.log = IF ExportRaises(PeriodPath(DetailedFile))
                                  THEN @ ELSE Append(@, Event("export", "detailed"))]
    /\ UNCHANGED <<posix, clock, coreVars, prev, heap>>

\* A report plotted before its table is exported
ReportStages_PlotFirst(name) == <<"compute", "plot", "export">>

\* run_analysis: the statements of one report in the order of the code: the
\* table is computed, exported (for the by-year mean and the count, as the
\* last statement of the analysis function), then plotted
ReportStages(name) == <<"compute", "export", "plot">>

\* The stages that went through before the one that raised
StagesBefore(stages, raised) ==
    IF \E i \in 1..Len(stages) : stages[i] = raised
    THEN SubSeq(stages, 1, (CHOOSE i \in 1..Len(stages) : stages[i] = raised) - 1)
    ELSE stages

\* run_analysis: one report, its table computed from low_tides_df, exported
\* and plotted. An OSError of the rename or of savefig leaves run_analysis.
Report(name) ==
    /\ run.pc = name
    /\ ExportToCsv(ReportTable(name, result), PeriodPath(ReportFile(name)))
    /\ \E plot \in PlotOutcomes :
          LET raised == IF ExportRaises(PeriodPath(ReportFile(name))) THEN "export"
                        ELSE IF plot = "OSError" THEN "plot" ELSE "none"
              done == StagesBefore(ReportStages(name), raised)
              log == run.log \o [i \in 1..Len(done) |-> Event(done[i], name)]
          IN  run' = IF raised = "export"
                     THEN [run EXCEPT !.pc = "crashed", !.failed = name, !.log = log]
                     ELSE IF raised = "plot"
                     THEN [run EXCEPT !.pc = "crashed", !.failed = name,
                                      !.reports = @ \cup {name}, !.log = log]
                     ELSE [run EXCEPT !.pc = AfterReport(name),
                                      !.reports = @ \cup {name}, !.log = log]
    /\ UNCHANGED <<posix, clock, coreVars, prev, heap>>

ReportMonthly == Report("monthly")
ReportDaytime == Report("daytime")
ReportByYear == Report("by_year")
ReportCount == Report("count")

\* The output directory is emptied and run_analysis is called again with the
\* table of the first run
Rerun ==
    /\ run.analysed /\ run.round = 1
    /\ run.pc \in {"returned", "caught", "crashed"}
    /\ run' = [run EXCEPT !.pc = "detect", !.round = 2, !.first = run.pc,
                          !.snapshot = files, !.reports = {}, !.failed = "none",
                          !.entry = <<>>, !.log = <<>>]
    /\ files' = <<>>
    /\ written' = {}
    /\ nexports' = 0
    /\ last' = NoCall
    /\ UNCHANGED <<posix, clock, coreVars, prev, heap>>

NextRun ==
    \/ Tick
    \/ LoadTidalData
    \/ MainGuard
    \/ RunIdentifyLowTides
    \/ ExportDetailed
    \/ ReportMonthly
    \/ ReportDaytime
    \/ ReportByYear
    \/ ReportCount
    \/ Rerun

SpecRun == InitRun /\ [][NextRun]_vars

----------------------------------------------------------------------------
(* Claims on the command-line run *)

\* The tables of directory fs other than the raw export of load_tidal_data
AnalysisTables(fs) == [p \in (DOMAIN fs) \ {RawOutput} |-> fs[p]]

RunEnded == run.pc \in {"returned", "caught", "crashed"}

\* C16: run_analysis run twice on the same input, each time against a clean
\* output directory, exports tables of identical contents, whatever the clock
\* reads at each run: a table exported by both runs is the same in both, and
\* two runs that went through leave the same files with the same tables.
C16_SameTablesOnRerun ==
    (run.round = 2 /\ run.clean) =>
        /\ \A p \in (DOMAIN files) \cap (DOMAIN run.snapshot) :
              files[p] = run.snapshot[p]
        /\ (run.first = "returned" /\ run.pc = "returned")
              => AnalysisTables(files) = AnalysisTables(run.snapshot)

\* C16 witness: both runs went through all four reports, the second one or
\* more seconds after the start of the first, and the directories agree
C16_Witness ==
    /\ run.round = 2 /\ run.clean /\ run.first = "returned" /\ run.pc = "returned"
    /\ run.reports = {"monthly", "daytime", "by_year", "count"}
    /\ Strftime(last.now) > 0
    /\ Cardinality(DOMAIN AnalysisTables(files)) = 5
    /\ AnalysisTables(files) = AnalysisTables(run.snapshot)
    /\ Len(low_tides) = 2 /\ low_tides[1].t = low_tides[2].t

\* The reports that come after report name in run_analysis
LaterReports(name) ==
    {ReportNames[j] : j \in {k \in 1..Len(ReportNames) :
                                \E i \in 1..(k - 1) : ReportNames[i] = name}}

\* C18: when one report's compute-export-plot sequence fails, every later
\* report is still computed and exported: once run_analysis has ended, each
\* report after the failed one has its table in the output directory.
C18_FailureIsolated ==
    (RunEnded /\ run.failed \in {"monthly", "daytime", "by_year", "count"}) =>
        \A r \in LaterReports(run.failed) :
            /\ r \in run.reports
            /\ Exists(files, PeriodPath(ReportFile(r)))

\* C19: run_analysis is called only if load_tidal_data returned a table that
\* is not None and not empty; after a missing CSV file, a CSV parse error or a
\* failed fetch the run ends without run_analysis and without the export of an
\* analysis table.
C19_CoreOnlyOnLoadedData ==
    /\ run.analysed => (~run.none /\ df # <<>> /\ run.outcome = "ok")
    /\ (run.pc # "idle" /\ run.outcome # "ok") =>
          /\ ~run.analysed
          /\ run.pc \in {"loaded", "stopped", "crashed"}
          /\ low_tides = <<>> /\ result = <<>>
          /\ nexports <= 1
          /\ nexports = 1 => last.path = RawOutput
          /\ AnalysisTables(files) \in {<<>>, LeftBehind}

\* C19 witness: the fetch failed, the empty table was exported as raw data and
\* main stopped before run_analysis
C19_Witness ==
    /\ run.pc = "stopped" /\ run.outcome = "request_failed" /\ ~run.none
    /\ ~run.analysed
    /\ Exists(files, RawOutput) /\ files[RawOutput] = <<>>

\* C19 witness: a CSV file that is missing ends the run at main's guard
C19_WitnessMissing ==
    /\ run.pc = "stopped" /\ run.outcome = "missing" /\ run.none /\ nexports = 0

----------------------------------------------------------------------------
(* DataFrame objects: what the core operations of the package (analysis.py) *)
(* and of the script (monthly_tidal_variance.py) do to the frame passed in  *)

\* A frame: its column labels and its rows, each row a function of the labels
NewFrame(tb) == [columns |-> <<"t", "v", "type">>, rows |-> tb]

\* The object passed by the caller is the first of the heap
Arg == 1

\* A new object holding frame f: df.copy(), df[mask], sort_values, concat
Alloc(h, f) == Append(h, f)

\* obj[col] = values, in place: a new column is appended, an existing one replaced
SetColumn(h, id, col, values) ==
    [h EXCEPT ![id] =
        [columns |-> IF \E k \in 1..Len(@.columns) : @.columns[k] = col
                     THEN @.columns ELSE Append(@.columns, col),
         rows |-> [i \in 1..Len(@.rows) |->
                     [c \in (DOMAIN @.rows[i]) \cup {col} |->
                         IF c = col THEN values[i] ELSE @.rows[i][c]]]]]

\* df[mask]: a new object with the rows of object id at which the mask is true
Select(h, id, m) ==
    Alloc(h, [columns |-> h[id].columns, rows |-> BoolIndex(h[id].rows, m)])

\* df[(hour >= DAY_START_HOUR) & (hour <= DAY_END_HOUR)].copy() of the frame
\* passed in: the selection and its copy are two new objects
FilteredCopy(h) ==
    LET rows == h[Arg].rows
        selected == Select(h, Arg, [i \in 1..Len(rows) |->
                                      Hour(rows[i].t) >= DAY_START_HOUR
                                      /\ Hour(rows[i].t) <= DAY_END_HOUR])
    IN  Alloc(selected, selected[Len(selected)])

\* The column t of frame f and the columns derived from it
ColT(f) == [i \in 1..Len(f.rows) |-> f.rows[i].t]
ColMonth(f) == [i \in 1..Len(f.rows) |-> Month(f.rows[i].t)]
ColYear(f) == [i \in 1..Len(f.rows) |-> Year(f.rows[i].t)]
ColHour(f) == [i \in 1..Len(f.rows) |-> Hour(f.rows[i].t)]

\* The script's identify_low_tides: the rows whose type is not 'H', sorted, of
\* which the interior ones strictly below both neighbours are returned
\* ScriptLowMask with <= for <
ScriptLowMask_NotStrict(c) ==
    [i \in 1..Len(c) |-> i \in HighRange(c) /\ c[i].v <= c[i - 1].v /\ c[i].v <= c[i + 1].v]

ScriptLowMask(c) ==
    [i \in 1..Len(c) |-> i \in HighRange(c) /\ c[i].v < c[i - 1].v /\ c[i].v < c[i + 1].v]
ScriptLowerLows(c) == BoolIndex(c, ScriptLowMask(c))

\* The script's export_to_csv(df, filename): df.to_csv and no rotation
ScriptExportToCsv(tb, p) ==
    /\ files' = Store(files, p, tb)
    /\ written' = written \cup {tb}
    /\ nexports' = nexports + 1
    /\ last' = [path |-> p, new |-> tb, existed |-> Exists(files, p), raised |-> FALSE,
                now |-> clock,
                old |-> IF Exists(files, p) THEN files[p] ELSE <<>>,
                rotated_path |-> p,
                hadBackup |-> FALSE]

----------------------------------------------------------------------------
(* The frame machine: a caller passes one frame to one core operation of *)
(* the package or of the script                                          *)

MaxFrameRows == 2

FrameRows == {Row(DT(2024, 1, DAY_START_HOUR), 0, "L"),
              Row(DT(2024, 1, DAY_END_HOUR), 1, "L"),
              Row(DT(2023, 12, DAY_START_HOUR), 0, "L"),
              Row(DT(2024, 1, 12), 2, "H")}

InitFrame ==
    /\ posix = TRUE
    /\ clock = 0
    /\ InitFs
    /\ df \in TablesUpTo(FrameRows, MaxFrameRows)
    /\ heap = <<NewFrame(df)>>
    /\ op = "none"
    /\ low_tides = <<>>
    /\ mask = <<>>
    /\ result = <<>>
    /\ kept = <<>>
    /\ prev = NoEarlierCall
    /\ run = NoRun

\* analysis.py identify_low_tides: the filter and the sort give a new object,
\* and so do the padding and the final selection
PkgIdentifyLowTides ==
    /\ op = "none"
    /\ \E c \in SortValues(TypeIs(df, "L")) :
          /\ low_tides' = c
          /\ mask' = LowMask(c)
          /\ result' = LowerLows(c)
          /\ heap' = Alloc(Alloc(heap, [columns |-> heap[Arg].columns, rows |-> c]),
                           [columns |-> heap[Arg].columns, rows |-> LowerLows(c)])
    /\ op' = "pkg_low"
    /\ UNCHANGED <<posix, clock, fsVars, df, kept, prev, run>>

\* monthly_tidal_variance.py identify_low_tides: df is rebound to a new object
ScriptIdentifyLowTides ==
    /\ op = "none"
    /\ \E c \in SortValues(TypeIsNot(df, "H")) :
          /\ low_tides' = c
          /\ mask' = ScriptLowMask(c)
          /\ result' = ScriptLowerLows(c)
          /\ heap' = Alloc(heap, [columns |-> heap[Arg].columns, rows |-> c])
    /\ op' = "script_low"
    /\ UNCHANGED <<posix, clock, fsVars, df, kept, prev, run>>

\* analysis.py analyze_monthly_average: df_local = low_tides_df.copy();
\* df_local["month"] = ...
PkgAnalyzeMonthlyAverage ==
    /\ op = "none"
    /\ LET df_local == Len(heap) + 1
       IN  heap' = SetColumn(Alloc(heap, heap[Arg]), df_local, "month", ColMonth(heap[Arg]))
    /\ kept' = df
    /\ result' = MonthlyAvg(df)
    /\ op' = "pkg_monthly"
    /\ UNCHANGED <<posix, clock, fsVars, df, low_tides, mask, prev, run>>

\* monthly_tidal_variance.py analyze_monthly_average:
\* low_tides_df["month"] = low_tides_df["t"].dt.month
ScriptAnalyzeMonthlyAverage ==
    /\ op = "none"
    /\ heap' = SetColumn(heap, Arg, "month", ColMonth(heap[Arg]))
    /\ kept' = df
    /\ result' = MonthlyAvg(df)
    /\ op' = "script_monthly"
    /\ UNCHANGED <<posix, clock, fsVars, df, low_tides, mask, prev, run>>

\* calculate_monthly_avg_lowest_daytime_tide, the same in both revisions:
\* df_filtered = df[...].copy(); df_filtered["month"] = ...
LowestDaytimeTide ==
    /\ op = "none"
    /\ LET df_filtered == Len(heap) + 2
       IN  heap' = SetColumn(FilteredCopy(heap), df_filtered, "month",
                             ColMonth(FilteredCopy(heap)[df_filtered]))
    /\ kept' = DaytimeInclusive(df)
    /\ result' = MonthlyAvgLowest(df)
    /\ op' = "daytime"
    /\ UNCHANGED <<posix, clock, fsVars, df, low_tides, mask, prev, run>>

\* calculate_monthly_avg_lowest_day_tide_by_year of either revision: the columns
\* year and month are set on df_filtered, the result is exported
ByYearOnFrame(name) ==
    /\ op = "none"
    /\ LET df_filtered == Len(heap) + 2
           filtered == FilteredCopy(heap)[df_filtered]
       IN  heap' = SetColumn(SetColumn(FilteredCopy(heap), df_filtered, "year",
                                       ColYear(filtered)),
                             df_filtered, "month", ColMonth(filtered))
    /\ kept' = DaytimeInclusive(df)
    /\ result' = MonthlyAvgLowestYearly(df)
    /\ IF name = "pkg_by_year"
       THEN ExportToCsv(MonthlyAvgLowestYearly(df), ByYearPath)
       ELSE ScriptExportToCsv(MonthlyAvgLowestYearly(df), ByYearPath)
    /\ op' = name
    /\ UNCHANGED <<posix, clock, df, low_tides, mask, prev, run>>

PkgByYear == ByYearOnFrame("pkg_by_year")
ScriptByYear == ByYearOnFrame("script_by_year")

\* The columns the counter sets: t (pd.to_datetime), month, year and hour, on object id
CounterColumns(h, id) ==
    SetColumn(SetColumn(SetColumn(SetColumn(h, id, "t", ColT(h[id])),
                                  id, "month", ColMonth(h[id])),
                        id, "year", ColYear(h[id])),
              id, "hour", ColHour(h[id]))

\* df_below = obj[obj["v"] < TIDEPOOL_TIDE] and df_below_daytime: two new objects
CounterSelections(h, id) ==
    LET below == Select(h, id, [i \in 1..Len(h[id].rows) |->
                                  h[id].rows[i].v < TIDEPOOL_TIDE])
        df_below == below[Len(below)].rows
    IN  Select(below, Len(below),
               [i \in 1..Len(df_below) |-> df_below[i].hour >= DAY_START_HOUR
                                           /\ df_below[i].hour < DAY_END_HOUR])

\* analysis.py calculate_monthly_avg_count_below_tidepool_tide_daytime:
\* df_local = df.copy(), on which the columns are set
PkgCount ==
    /\ op = "none"
    /\ heap' = CounterSelections(CounterColumns(Alloc(heap, heap[Arg]), Len(heap) + 1),
                                 Len(heap) + 1)
    /\ kept' = Daytime(BelowTidepool(df))
    /\ result' = AverageMonthlyCountsDaytime(df)
    /\ ExportToCsv(AverageMonthlyCountsDaytime(df), CountsPath)
    /\ op' = "pkg_count"
    /\ UNCHANGED <<posix, clock, df, low_tides, mask, prev, run>>

\* monthly_tidal_variance.py calculate_monthly_avg_count_below_tidepool_tide_daytime:
\* df["t"] = pd.to_datetime(df["t"]); df["month"] = ...; df["year"] = ...; df["hour"] = ...
ScriptCount ==
    /\ op = "none"
    /\ heap' = CounterSelections(CounterColumns(heap, Arg), Arg)
    /\ kept' = Daytime(BelowTidepool(df))
    /\ result' = AverageMonthlyCountsDaytime(df)
    /\ ScriptExportToCsv(AverageMonthlyCountsDaytime(df), CountsPath)
    /\ op' = "script_count"
    /\ UNCHANGED <<posix, clock, df, low_tides, mask, prev, run>>

NextFrame ==
    \/ PkgIdentifyLowTides
    \/ ScriptIdentifyLowTides
    \/ PkgAnalyzeMonthlyAverage
    \/ ScriptAnalyzeMonthlyAverage
    \/ LowestDaytimeTide
    \/ PkgByYear
    \/ ScriptByYear
    \/ PkgCount
    \/ ScriptCount

SpecFrame == InitFrame /\ [][NextFrame]_vars

\* C17: no core operation mutates its input: after identify_low_tides,
\* analyze_monthly_average, calculate_monthly_avg_lowest_daytime_tide,
\* calculate_monthly_avg_lowest_day_tide_by_year or the counter has returned,
\* the frame passed in has the same rows, columns and values as before the call.
C17_InputNotMutated ==
    op # "none" => heap[Arg] = NewFrame(df)

\* The operations of analysis.py leave the frame passed in as it was
C17_PackageKeepsInput ==
    op \in {"pkg_low", "pkg_monthly", "daytime", "pkg_by_year", "pkg_count"} =>
        heap[Arg] = NewFrame(df)

\* The script's analyze_monthly_average has added a column to the caller's frame
C17_ScriptAddsColumn ==
    /\ op = "script_monthly" /\ df # <<>>
    /\ heap[Arg].columns = <<"t", "v", "type", "month">>
    /\ heap[Arg].rows[1].month = Month(df[1].t)


----------------------------------------------------------------------------
(* The kind machine: identify_low_tides is called on a table, the High rows *)
(* of the table are edited, and identify_low_tides is called again          *)

MaxKindLen == 3

\* Input rows: Low rows at two instants, and between them in time High rows,
\* one of them lower than every Low row
KindRows == {Row(t, v, "L") : t \in {DT(2024, 1, 4), DT(2024, 1, 16)}, v \in {1, 2}}
            \cup {Row(DT(2024, 1, 10), v, "H") : v \in {0, 3}}

InitKind ==
    /\ posix = TRUE
    /\ clock = 0
    /\ InitFs
    /\ df \in TablesUpTo(KindRows, MaxKindLen)
    /\ op = "none"
    /\ low_tides = <<>>
    /\ mask = <<>>
    /\ result = <<>>
    /\ kept = <<>>
    /\ InitAux

\* The caller adds, removes or changes rows whose type is not 'L', anywhere in
\* the table; what the first call returned is remembered
EditHighRows ==
    /\ op = "low"
    /\ \E tb \in TablesUpTo(KindRows, MaxKindLen) :
          /\ tb # df
          /\ SelectSeq(tb, LAMBDA r : r.type = "L") = SelectSeq(df, LAMBDA r : r.type = "L")
          /\ df' = tb
    /\ prev' = [called |-> TRUE, op |-> op, df |-> df, input |-> TypeIs(df, "L"),
                low_tides |-> low_tides, result |-> result]
    /\ op' = "edited"
    /\ low_tides' = <<>>
    /\ mask' = <<>>
    /\ result' = <<>>
    /\ UNCHANGED <<posix, clock, fsVars, kept, heap, run>>

\* identify_low_tides(df), called again. The sort is a function of the frame
\* it is applied to: the same filtered frame is ordered as in the first call.
IdentifyLowTidesAgain ==
    /\ op = "edited"
    /\ \E c \in SortValues(TypeIs(df, "L")) :
          /\ TypeIs(df, "L") = prev.input => c = prev.low_tides
          /\ low_tides' = c
          /\ mask' = LowMask(c)
          /\ result' = LowerLows(c)
    /\ op' = "low_again"
    /\ UNCHANGED <<posix, clock, fsVars, df, kept, auxVars>>

NextKind ==
    \/ IdentifyLowTides
    \/ EditHighRows
    \/ IdentifyLowTidesAgain

SpecKind == InitKind /\ [][NextKind]_vars

\* C20: Low detection depends only on the Low rows: after High rows were
\* added, removed or changed anywhere in the input, also between two Low rows
\* in time, identify_low_tides returns the Low points it returned before,
\* which are the minima among consecutive Low rows.
C20_HighRowsDoNotMatter ==
    op = "low_again" =>
        /\ low_tides = prev.low_tides
        /\ result = prev.result
        /\ \A i \in 1..Len(result) : result[i].type = "L"
        /\ Len(low_tides) >= 2 =>
              IsRowsAt(result, low_tides,
                       {i \in 1..Len(low_tides) : StrictLocalMin(low_tides, i)})

\* C20 witness: a High row lower than both Low rows was put between them in
\* time; before and after, the earlier Low row is the one returned
C20_Witness ==
    /\ op = "low_again"
    /\ Len(prev.df) = 2 /\ Len(df) = 3
    /\ \A j \in 1..2 : prev.df[j].type = "L"
    /\ df[2].type = "H" /\ df[2].v = 0
    /\ df[1].t < df[2].t /\ df[2].t < df[3].t
    /\ df[1].v < df[3].v
    /\ result = <<df[1]>> /\ prev.result = <<df[1]>>

----------------------------------------------------------------------------
(* Further claims on the extrema detector *)

\* C21: the table identify_low_tides returns is a subsequence of the input's
\* Low rows: every returned row is an input row of kind 'L', no row appears
\* more often in the output than in the input, and the returned rows are in
\* ascending timestamp order.
C21_ResultIsSubsequenceOfLowRows ==
    op = "low" =>
        /\ \A i \in 1..Len(result) :
              /\ result[i].type = "L"
              /\ \E j \in 1..Len(df) : df[j] = result[i]
              /\ Occurrences(result, result[i]) <= Occurrences(df, result[i])
        /\ \A i \in 1..(Len(result) - 1) : result[i].t <= result[i + 1].t
        /\ \E idx \in SUBSET (1..Len(low_tides)) : IsRowsAt(result, low_tides, idx)

\* C21 witness: the input has a High row and its Low rows are not in time
\* order; two of them are returned, the earlier one first
C21_Witness ==
    /\ op = "low" /\ Len(result) = 2
    /\ result[1].t < result[2].t
    /\ \E j \in 1..Len(df) : df[j].type = "H"
    /\ \E j, k \in 1..Len(df) :
          j < k /\ df[j] = result[2] /\ df[k] = result[1]

----------------------------------------------------------------------------
(* The order machine: an aggregation is called on a table, the rows of the *)
(* table are permuted, and the same aggregation is called again            *)

MaxOrderRows == 3

\* Input rows: December of one year and January of the next, at the first
\* hour of the daytime window; a height below the threshold, and heights of
\* which the float sum depends on the order of the addends
OrderRows == {Row(t, v, "L") : t \in {DT(2023, 12, DAY_START_HOUR), DT(2024, 1, DAY_START_HOUR)},
                               v \in {0, 1, 2, 2 ^ MantissaBits - 1}}

\* The tables with the rows of tb in another order
Permuted(tb) ==
    {[i \in 1..Len(tb) |-> tb[f[i]]] : f \in Permutations(1..Len(tb))} \ {tb}

InitOrder ==
    /\ posix = TRUE
    /\ clock = 0
    /\ InitFs
    /\ df \in TablesUpTo(OrderRows, MaxOrderRows)
    /\ op = "none"
    /\ low_tides = <<>>
    /\ mask = <<>>
    /\ result = <<>>
    /\ kept = <<>>
    /\ InitAux

\* The caller reorders the rows of the table; what the first call returned is
\* remembered
PermuteRows ==
    /\ op \in {"monthly", "by_year", "count"}
    /\ \E tb \in Permuted(df) : df' = tb
    /\ prev' = [called |-> TRUE, op |-> op, df |-> df, input |-> df,
                low_tides |-> <<>>, result |-> result]
    /\ op' = "permuted"
    /\ result' = <<>>
    /\ kept' = <<>>
    /\ UNCHANGED <<posix, clock, fsVars, low_tides, mask, heap, run>>

\* The aggregation of the first call, called on the reordered table
AggregateAgain ==
    /\ op = "permuted"
    /\ op' = "again"
    /\ CASE prev.op = "monthly" ->
              /\ kept' = df
              /\ result' = MonthlyAvg(df)
              /\ UNCHANGED fsVars
         [] prev.op = "by_year" ->
              /\ kept' = DaytimeInclusive(df)
              /\ result' = MonthlyAvgLowestYearly(df)
              /\ ExportToCsv(MonthlyAvgLowestYearly(df), ByYearPath)
         [] prev.op = "count" ->
              /\ kept' = Daytime(BelowTidepool(df))
              /\ result' = AverageMonthlyCountsDaytime(df)
              /\ ExportToCsv(AverageMonthlyCountsDaytime(df), CountsPath)
    /\ UNCHANGED <<posix, clock, df, low_tides, mask, auxVars>>

NextOrder ==
    \/ AnalyzeMonthlyAverage
    \/ MonthlyAvgLowestDayTideByYear
    \/ CountBelowTidepoolDaytime
    \/ PermuteRows
    \/ AggregateAgain

SpecOrder == InitOrder /\ [][NextOrder]_vars

\* C22 as stated: for every permutation of the input rows the aggregation
\* returns the same groups, in the same order, with the same values.
C22_SameTableForEveryOrder ==
    op = "again" => result = prev.result

\* The group of row g of a returned table: the indices of the input rows of its
\* month, and of its year where the table has one
GroupOf(tb, g) ==
    {j \in 1..Len(df) : /\ Month(df[j].t) = tb[g].month
                        /\ prev.op = "by_year" => Year(df[j].t) = tb[g].year}

\* The float mean avg of n addends of exact sum total is off the exact mean by
\* no more than the rounding of the n partial sums
NearMean(avg, total, n) ==
    /\ avg.den > 0
    /\ (avg.num * n - total * avg.den) * (2 ^ MantissaBits) <= n * total * avg.den
    /\ (total * avg.den - avg.num * n) * (2 ^ MantissaBits) <= n * total * avg.den

\* C22, amended: for every permutation of the input rows the aggregation
\* returns the same groups in the same order with the same month names; the
\* counter's averages are the same, and a mean of heights is in both calls the
\* exact mean of the group up to the rounding of the float sum, which adds the
\* heights in row order.
C22_SameGroupsForEveryOrder ==
    op = "again" =>
        /\ Len(result) = Len(prev.result)
        /\ \A g \in 1..Len(result) :
              /\ result[g].month = prev.result[g].month
              /\ result[g].month_name = prev.result[g].month_name
              /\ prev.op = "by_year" => result[g].year = prev.result[g].year
        /\ prev.op = "count" => result = prev.result
        /\ prev.op = "monthly" =>
              \A g \in 1..Len(result) :
                  LET G == GroupOf(result, g)
                  IN  /\ NearMean(result[g].v, SumAt(df, G), Cardinality(G))
                      /\ NearMean(prev.result[g].v, SumAt(df, G), Cardinality(G))
        /\ prev.op = "by_year" =>
              \A g \in 1..Len(result) :
                  LET G == GroupOf(result, g)
                  IN  /\ NearMean(result[g].average_lowest_tide, SumAt(df, G), Cardinality(G))
                      /\ NearMean(prev.result[g].average_lowest_tide, SumAt(df, G),
                                  Cardinality(G))

\* C22 witness: the rows of one month in two orders give the same single group
\* and two different float means
C22_Witness ==
    /\ op = "again" /\ prev.op = "monthly"
    /\ Len(df) = 3 /\ df # prev.df
    /\ Len(result) = 1 /\ Len(prev.result) = 1
    /\ result[1].month = prev.result[1].month
    /\ result[1].v # prev.result[1].v

\* C22 witness: the counter returns the same twelve rows for both orders of
\* rows of which some qualify
C22_WitnessCount ==
    /\ op = "again" /\ prev.op = "count" /\ df # prev.df
    /\ result = prev.result
    /\ \E m \in 1..12 : result[m].average_count_below_tidepool_tide_daytime.num > 0

----------------------------------------------------------------------------
(* Further claims on the command-line run *)

\* The events of stage in the log of the current run_analysis
StageEvents(stage) == {i \in 1..Len(run.log) : run.log[i].stage = stage}

\* C23: when identify_low_tides returns a table of no rows, run_analysis
\* returns normally: it has exported no table and made no plot, and every
\* file of the output directories is as it was when run_analysis was entered.
C23_EmptyExtremaReturnQuietly ==
    (run.analysed /\ run.columns_ok /\ run.pc \in {"returned", "detailed"}
        /\ result = <<>>) =>
        /\ run.pc = "returned"
        /\ files = run.entry
        /\ StageEvents("export") = {} /\ StageEvents("plot") = {}
        /\ run.reports = {} /\ run.failed = "none"

\* C23 witness: a loaded table with Low rows of which none is a lower low, in
\* a directory that holds files, and run_analysis back with nothing touched
C23_Witness ==
    /\ run.analysed /\ run.columns_ok /\ run.pc = "returned" /\ result = <<>>
    /\ Len(low_tides) = 2
    /\ files = run.entry /\ files # <<>>
    /\ run.log = <<Event("detect", "low_tides")>>

\* The file a logged export wrote, and the table it held
ExportedFile(name) == IF name = "detailed" THEN DetailedFile ELSE ReportFile(name)
ExportedTable(name) == IF name = "detailed" THEN result ELSE ReportTable(name, result)

\* Event e is in the log before position i
LoggedBefore(e, i) == \E j \in 1..(i - 1) : run.log[j] = e

\* C24: in every run of run_analysis the extrema detection completes before
\* any aggregation or count starts, a table is exported only after it has been
\* computed from the extrema series (and the file holds that table), and a
\* report is plotted only after its table has been exported.
C24_StagesInOrder ==
    \A i \in 1..Len(run.log) :
        LET e == run.log[i]
        IN  /\ e.stage = "detect" => i = 1
            /\ e.stage = "compute" => LoggedBefore(Event("detect", "low_tides"), i)
            /\ e.stage = "export" =>
                  /\ LoggedBefore(IF e.name = "detailed" THEN Event("detect", "low_tides")
                                  ELSE Event("compute", e.name), i)
                  /\ Exists(files, PeriodPath(ExportedFile(e.name)))
                  /\ files[PeriodPath(ExportedFile(e.name))] = ExportedTable(e.name)
            /\ e.stage = "plot" => LoggedBefore(Event("export", e.name), i)

\* C24 witness: a run through the detection, the detailed export and the four
\* reports, each computed, exported and plotted
C24_Witness ==
    /\ run.pc = "returned" /\ Len(run.log) = 14
    /\ run.log[1] = Event("detect", "low_tides")
    /\ run.log[2] = Event("export", "detailed")
    /\ run.log[14] = Event("plot", "count")
    /\ \A name \in {"monthly", "daytime", "by_year", "count"} :
          \E i \in 3..12 : /\ run.log[i] = Event("compute", name)
                           /\ run.log[i + 1] = Event("export", name)
                           /\ run.log[i + 2] = Event("plot", name)

----------------------------------------------------------------------------
(* The run machine with run_analysis called once more on the same table *)
(* against the output directory as the first call left it                *)

\* A second run_analysis(tidal_df, start_year, end_year) in the same directory,
\* once the first has returned
RunAgain ==
    /\ run.analysed /\ run.round = 1
    /\ run.pc = "returned"
    /\ run' = [run EXCEPT !.pc = "detect", !.round = 2, !.first = run.pc,
                          !.snapshot = files, !.reports = {}, !.failed = "none",
                          !.entry = files, !.log = <<>>]
    /\ written' = {}
    /\ nexports' = 0
    /\ last' = NoCall
    /\ UNCHANGED <<posix, clock, files, coreVars, prev, heap>>

NextTwice ==
    \/ Tick
    \/ LoadTidalData
    \/ MainGuard
    \/ RunIdentifyLowTides
    \/ ExportDetailed
    \/ ReportMonthly
    \/ ReportDaytime
    \/ ReportByYear
    \/ ReportCount
    \/ RunAgain

SpecTwice == InitRun /\ [][NextTwice]_vars

\* The five tables run_analysis exports, and the path of each
ExportNames == {"detailed", "monthly", "daytime", "by_year", "count"}
TargetOf(name) == PeriodPath(ExportedFile(name))

\* The rotated backups of the file at p in directory fs
BackupsOf(fs, p) == {q \in DOMAIN fs : q.rotated /\ q.stem = p.stem /\ q.suffix = p.suffix}

\* run_analysis went through all five exports and the four plots
WentThrough == run.pc = "returned" /\ run.reports = {"monthly", "daytime", "by_year", "count"}

\* Directory fs holds none of the five targets
HoldsNone(fs) == \A name \in ExportNames : ~Exists(fs, TargetOf(name))

\* C25: within one run_analysis call the five export targets are pairwise
\* distinct and each is written once at most, exactly once when the run goes
\* through; a run entered with none of them in the directory makes no backup of
\* any; and a second run in the directory such a run left rotates each of the
\* five files once: one backup each, holding the table of the first run.
C25_FiveTargetsOnceEach ==
    run.analysed =>
        /\ \A a, b \in ExportNames : a # b => TargetOf(a) # TargetOf(b)
        /\ \A name \in ExportNames :
              Cardinality({i \in StageEvents("export") : run.log[i].name = name})
                  = IF WentThrough THEN 1
                    ELSE IF Event("export", name) \in {run.log[i] : i \in 1..Len(run.log)}
                    THEN 1 ELSE 0
        /\ HoldsNone(run.entry) =>
              \A name \in ExportNames : BackupsOf(files, TargetOf(name)) = {}
        /\ (run.round = 2 /\ run.first = "returned" /\ WentThrough
               /\ \A name \in ExportNames :
                     /\ Exists(run.snapshot, TargetOf(name))
                     /\ BackupsOf(run.snapshot, TargetOf(name)) = {}) =>
              \A name \in ExportNames :
                  /\ Cardinality(BackupsOf(files, TargetOf(name))) = 1
                  /\ \A q \in BackupsOf(files, TargetOf(name)) :
                        files[q] = run.snapshot[TargetOf(name)]
                  /\ files[TargetOf(name)] = ExportedTable(name)

\* C25 witness: the second run went through in the directory the first left,
\* in a later second, and five backups hold the tables of the first run
C25_Witness ==
    /\ run.round = 2 /\ run.first = "returned" /\ WentThrough
    /\ Cardinality({q \in DOMAIN files : q.rotated}) = 5
    /\ \E q \in DOMAIN files : q.rotated /\ q.stamp > 0
    /\ \A name \in ExportNames :
          /\ Exists(run.snapshot, TargetOf(name))
          /\ BackupsOf(run.snapshot, TargetOf(name)) = {}
          /\ \E q \in BackupsOf(files, TargetOf(name)) : files[q] = run.snapshot[TargetOf(name)]

\* C25 witness: a first run went through in a directory holding files of
\* another period and none of its own targets, and made no backup
C25_WitnessNoBackup ==
    /\ run.round = 1 /\ WentThrough
    /\ run.entry = LeftBehind /\ HoldsNone(run.entry)
    /\ {q \in DOMAIN files : q.rotated} = {q \in DOMAIN LeftBehind : q.rotated}
    /\ \A name \in ExportNames : Exists(files, TargetOf(name))

----------------------------------------------------------------------------
(* The load machine: main up to its guard, in a raw-data directory that *)
(* earlier runs have used                                                *)

\* What earlier runs with source 'api' left at the raw-data path
EarlierRaw == <<Row(DT(2024, 1, 12), 2, "H")>>
EarliestRaw == <<Row(DT(2023, 12, DAY_END_HOUR), 0, "L")>>

\* The raw-data directories main can meet: clean, holding the raw file of an
\* earlier run, and holding also a backup of it made within the current second
RawDirs ==
    {<<>>,
     Store(<<>>, RawOutput, EarlierRaw),
     Store(Store(<<>>, RawOutput, EarlierRaw),
           RotatedPath(RawOutput, Strftime(0)), EarliestRaw)}

InitLoad ==
    /\ posix \in BOOLEAN
    /\ clock = 0
    /\ files \in RawDirs
    /\ written = {}
    /\ nexports = 0
    /\ last = NoCall
    /\ InitCore
    /\ InitAux

NextLoad ==
    \/ Tick
    \/ LoadTidalData
    \/ MainGuard

SpecLoad == InitLoad /\ [][NextLoad]_vars

\* load_tidal_data was called with source 'api' and the request or the JSON
\* decoding failed inside fetch_tidal_data
FetchFailed ==
    /\ run.source = "api" /\ run.outcome = "request_failed"
    /\ run.pc \in {"loaded", "stopped", "crashed"}

\* C26: with source 'api', when fetch_tidal_data fails with an HTTP or JSON
\* error it returns an empty table, load_tidal_data exports that table to the
\* raw-data path, so that a raw file there is rotated to a backup and replaced
\* by an empty file, and main stops with no analysis.
C26_FailedFetchReplacesRawFile ==
    FetchFailed =>
        /\ df = <<>>
        /\ last.path = RawOutput /\ last.new = <<>>
        /\ last.existed =>
              /\ files[RawOutput] = <<>>
              /\ Exists(files, last.rotated_path)
              /\ files[last.rotated_path] = last.old
        /\ run.pc # "crashed"
        /\ ~run.analysed

\* The same where the rename replaces an existing backup, or finds none
C26_WhereRenameGoesThrough ==
    (FetchFailed /\ ~last.raised) => C26_FailedFetchReplacesRawFile

\* The fetch failed on Windows with the raw file and a backup of this second
\* in place: export_to_csv raised out of main and the raw file is as it was
C26_RenameRaised ==
    /\ FetchFailed /\ ~posix /\ last.raised
    /\ run.pc = "crashed"
    /\ files[RawOutput] = EarlierRaw

\* The fetch failed with a raw file in place, which is now in the backup, an
\* empty file in its place, and main has stopped
C26_Replaced ==
    /\ FetchFailed /\ run.pc = "stopped" /\ last.existed /\ ~last.raised
    /\ files[RawOutput] = <<>>
    /\ files[last.rotated_path] = EarlierRaw

----------------------------------------------------------------------------
(* The pair machine: the package's identify_low_tides, then the script's, *)
(* on the same table                                                      *)

MaxPairLen == 4

\* Input rows: Low rows of two heights at three instants, a High row, and a
\* row of a third kind
PairRows == {Row(t, v, "L") : t \in {DT(2024, 1, 4), DT(2024, 1, 16), DT(2024, 2, 4)},
                              v \in {0, 1}}
            \cup {Row(DT(2024, 1, 10), 2, "H"), Row(DT(2024, 1, 16), 0, "LL")}

InitPair ==
    /\ posix = TRUE
    /\ clock = 0
    /\ InitFs
    /\ df \in TablesUpTo(PairRows, MaxPairLen)
    /\ op = "none"
    /\ low_tides = <<>>
    /\ mask = <<>>
    /\ result = <<>>
    /\ kept = <<>>
    /\ InitAux

\* monthly_tidal_variance.py identify_low_tides(df), after the package's on
\* the same table, whose outcome is remembered. The sort is a function of the
\* frame it is applied to: the same filtered frame is ordered the same way.
ScriptIdentifyLowTidesAfter ==
    /\ op = "low"
    /\ \E c \in SortValues(TypeIsNot(df, "H")) :
          /\ TypeIsNot(df, "H") = TypeIs(df, "L") => c = low_tides
          /\ low_tides' = c
          /\ mask' = ScriptLowMask(c)
          /\ result' = ScriptLowerLows(c)
    /\ prev' = [called |-> TRUE, op |-> op, df |-> df, input |-> TypeIs(df, "L"),
                low_tides |-> low_tides, result |-> result]
    /\ op' = "script_low_after"
    /\ UNCHANGED <<posix, clock, fsVars, df, kept, heap, run>>

NextPair ==
    \/ IdentifyLowTides
    \/ ScriptIdentifyLowTidesAfter

SpecPair == InitPair /\ [][NextPair]_vars

\* The kinds of the rows of tb are only H and L
OnlyHighAndLow(tb) == \A i \in 1..Len(tb) : tb[i].type \in {"H", "L"}

\* The first candidate if head, then rows, then the last candidate if tail
WithEnds(c, rows, head, tail) ==
    (IF head THEN <<c[1]>> ELSE <<>>) \o rows \o (IF tail THEN <<c[Len(c)]>> ELSE <<>>)

\* C27: for every input whose kinds are only H and L, the two
\* identify_low_tides work on the same candidates and classify every interior
\* candidate identically; the legacy loop never returns the first or the last
\* candidate; and the package's result is the legacy result plus, possibly, the
\* first and/or the last candidate.
C27_PackageIsScriptPlusEnds ==
    (op = "script_low_after" /\ OnlyHighAndLow(df)) =>
        LET c == low_tides
            n == Len(c)
        IN  /\ c = prev.low_tides
            /\ \A i \in 2..(n - 1) : mask[i] = LowMask(c)[i]
            /\ \A i \in {1, n} \cap (1..n) : ~mask[i]
            /\ \E head, tail \in BOOLEAN :
                  /\ head => n >= 1
                  /\ tail => n >= 2
                  /\ prev.result = WithEnds(c, result, head, tail)

\* C27 witness: four candidates of heights 1, 0, 1, 0: both return the second,
\* the package also the last
C27_Witness ==
    /\ op = "script_low_after" /\ OnlyHighAndLow(df)
    /\ Len(low_tides) = 4
    /\ result = <<low_tides[2]>>
    /\ prev.result = <<low_tides[2], low_tides[4]>>

\* C27 witness: one candidate beside a High row: the package returns it, the
\* legacy loop nothing
C27_WitnessOne ==
    /\ op = "script_low_after" /\ OnlyHighAndLow(df)
    /\ Len(df) = 2 /\ Len(low_tides) = 1
    /\ result = <<>> /\ prev.result = low_tides

\* With a row of another kind the two work on different candidates
C27_OtherKindsDiffer ==
    /\ op = "script_low_after" /\ ~OnlyHighAndLow(df)
    /\ low_tides # prev.low_tides
    /\ \A head, tail \in BOOLEAN :
          (Len(low_tides) >= 2 \/ (~head /\ ~tail))
              => prev.result # WithEnds(low_tides, result, head, tail)

====
